---------------------------- MODULE Spec2Model ----------------------------
(***************************************************************************)
(* A model of cloudr's DataCloud (src/src/cloud.rs): an associative        *)
(* container of borrowed references, backed by a hash table in a RefCell.  *)
(*                                                                         *)
(* A hash table is modelled as the sequence of its entries <<key, addr>>   *)
(* in iteration order (keys unique).  A reference &'a V is modelled by the *)
(* address it points to; Val(a) is the value stored at address a, so two   *)
(* references are identical when their addresses are equal and "equal" in  *)
(* the sense of V: PartialEq when the values at their addresses are equal. *)
(* The iteration order of a hash table is unspecified: a new key lands in  *)
(* any position of the sequence, the other entries keep their order.       *)
(***************************************************************************)
EXTENDS Integers, Sequences, FiniteSets

\* ------------------------------------------------------------------ bounds
MaxAddr == 2
MaxOthers == 2

CloudIds == {1, 2}
Keys == {1, 2}
Addrs == 1..MaxAddr

\* Option::None for an Option<&V>; addresses are positive.
NoneRef == 0

\* The value stored at an address (V: PartialEq compares these).
Val(a) == a % 2

\* nodes[i] is the table of container i (DataCloud::nodes) and last the last
\* call made; live is the set of containers that have not been moved out of;
\* borrow[i] is the borrow flag of container i's RefCell (0 unused, n > 0 that
\* many shared borrows, -1 one exclusive borrow); frame is the call whose
\* closure is running; it is the adapter last built; owned is the mapping
\* into_owned last returned; threads[t] is where thread t is in the call it
\* makes on a container it shares.
VARIABLES nodes, last, live, borrow, frame, it, owned, threads
vars == <<nodes, last, live, borrow, frame, it, owned, threads>>

\* What the calls that work on tables alone leave as it is.
rest == <<live, borrow, frame, it, owned, threads>>

\* ------------------------------------------------------- hash table helpers
KeysOf(t) == {t[i][1] : i \in DOMAIN t}

\* HashMap::get / HashMap::contains_key: the direct keyed lookup.
HashMapContainsKey(t, k) == \E i \in DOMAIN t : t[i][1] = k

HashMapGet(t, k) ==
    IF HashMapContainsKey(t, k)
    THEN t[CHOOSE i \in DOMAIN t : t[i][1] = k][2]
    ELSE NoneRef

InsertAt(t, p, e) == SubSeq(t, 1, p - 1) \o <<e>> \o SubSeq(t, p, Len(t))

\* Mutant of HashMapInsert: the new entry is added without looking for the key,
\* so an existing key keeps its old entry as well.
HashMapInsertAppend(t, k, v) == {Append(t, <<k, v>>)}

\* HashMap::insert: the tables that can result.  An existing key keeps its
\* slot and gets the new reference; a new key takes any free slot.
HashMapInsert(t, k, v) ==
    IF HashMapContainsKey(t, k)
    THEN {[i \in DOMAIN t |-> IF t[i][1] = k THEN <<k, v>> ELSE t[i]]}
    ELSE {InsertAt(t, p, <<k, v>>) : p \in 1..(Len(t) + 1)}

\* Mutant of HashMapRemove: the first slot is vacated whatever key it holds.
HashMapRemoveFirstSlot(t, k) ==
    IF HashMapContainsKey(t, k) THEN Tail(t) ELSE t

\* HashMap::remove: the entry goes, the others keep their slots.
HashMapRemove(t, k) == SelectSeq(t, LAMBDA e : e[1] # k)

\* HashMap::retain with the predicate given as the set of pairs it accepts.
HashMapRetain(t, P) == SelectSeq(t, LAMBDA e : <<e[1], e[2]>> \in P)

\* Successive HashMap::insert calls of the entries of s, in order, starting
\* from any table of T.
RECURSIVE InsertEach(_, _)
InsertEach(T, s) ==
    IF s = <<>> THEN T
    ELSE InsertEach(UNION {HashMapInsert(t, s[1][1], s[1][2]) : t \in T}, Tail(s))

Range(s) == {s[i] : i \in DOMAIN s}

Reverse(s) == [i \in DOMAIN s |-> s[Len(s) + 1 - i]]

\* ---------------------------------------------------------------- records
\* The last call made and what it returned: ret for an Option<&V>, flag for a
\* bool, out for a container.
\* A panic of the calling thread, as a result.
Panic == -1

\* The call whose closure is running: none.
NoFrame ==
    [op |-> "none", self |-> 0, f |-> "none", at |-> <<>>, todo |-> <<>>,
     seen |-> <<>>, kept |-> {}, out |-> <<>>]

\* No adapter.
NoIter == [kind |-> "none", self |-> 0, snap |-> <<>>, pairs |-> <<>>]

\* The threads that share a container, and a thread that has made no call.
Threads == {1, 2}
NoThread == [pc |-> "idle", op |-> "none", seen |-> 0]

\* What the state beside the tables is before any call.
Fresh ==
    /\ borrow = [i \in DOMAIN nodes |-> 0]
    /\ frame = NoFrame
    /\ it = NoIter
    /\ owned = <<>>
    /\ threads = [t \in Threads |-> NoThread]

NoCall == [op |-> "new", self |-> 0, key |-> 0, val |-> 0, ret |-> NoneRef,
           flag |-> FALSE, others |-> <<>>, out |-> <<>>]

Init ==
    /\ nodes = [i \in CloudIds |-> <<>>]
    /\ last = NoCall
    /\ live = CloudIds
    /\ Fresh

insert(i, k, v) ==
    /\ \E t \in HashMapInsert(nodes[i], k, v) :
          nodes' = [nodes EXCEPT ![i] = t]
    /\ last' = [NoCall EXCEPT !.op = "insert", !.self = i, !.key = k, !.val = v,
                              !.ret = HashMapGet(nodes[i], k)]

\* Mutant of or_insert: the reference is recorded even when the key is present.
or_insert_overwriting(i, k, v) ==
    /\ \E t \in HashMapInsert(nodes[i], k, v) :
          nodes' = [nodes EXCEPT ![i] = t]
    /\ last' = [NoCall EXCEPT !.op = "or_insert", !.self = i, !.key = k,
                              !.val = v, !.flag = HashMapContainsKey(nodes[i], k)]

\* DataCloud::or_insert: the returned bool is false on the branch that inserts.
or_insert(i, k, v) ==
    /\ IF ~HashMapContainsKey(nodes[i], k)
       THEN /\ \E t \in HashMapInsert(nodes[i], k, v) :
                  nodes' = [nodes EXCEPT ![i] = t]
            /\ last' = [NoCall EXCEPT !.op = "or_insert", !.self = i, !.key = k,
                                      !.val = v, !.flag = FALSE]
       ELSE /\ nodes' = nodes
            /\ last' = [NoCall EXCEPT !.op = "or_insert", !.self = i, !.key = k,
                                      !.val = v, !.flag = TRUE]

\* Mutant of ScanFrom: the loop returns the first entry's reference without
\* comparing its key.
ScanFromAnyKey(t, k, n) ==
    IF n > Len(t) THEN NoneRef ELSE t[n][2]

\* The loop of DataCloud::get: walk the entries in iteration order and return
\* the reference of the first one whose key equals the key searched for.
RECURSIVE ScanFrom(_, _, _)
ScanFrom(t, k, n) ==
    IF n > Len(t) THEN NoneRef
    ELSE IF t[n][1] = k THEN t[n][2]
    ELSE ScanFrom(t, k, n + 1)

get(i, k) ==
    /\ last' = [NoCall EXCEPT !.op = "get", !.self = i, !.key = k,
                              !.ret = ScanFrom(nodes[i], k, 1)]
    /\ UNCHANGED nodes

remove(i, k) ==
    /\ nodes' = [nodes EXCEPT ![i] = HashMapRemove(nodes[i], k)]
    /\ last' = [NoCall EXCEPT !.op = "remove", !.self = i, !.key = k,
                              !.ret = HashMapGet(nodes[i], k)]

contains_key(i, k) ==
    /\ last' = [NoCall EXCEPT !.op = "contains_key", !.self = i, !.key = k,
                              !.flag = HashMapContainsKey(nodes[i], k)]
    /\ UNCHANGED nodes

is_empty(i) ==
    /\ last' = [NoCall EXCEPT !.op = "is_empty", !.self = i,
                              !.flag = (Len(nodes[i]) = 0)]
    /\ UNCHANGED nodes

\* Mutant of clear: only the first slot is emptied.
clear_first_slot(i) ==
    /\ nodes' = [nodes EXCEPT ![i] = IF nodes[i] = <<>> THEN <<>> ELSE Tail(nodes[i])]
    /\ last' = [NoCall EXCEPT !.op = "clear", !.self = i]

clear(i) ==
    /\ nodes' = [nodes EXCEPT ![i] = <<>>]
    /\ last' = [NoCall EXCEPT !.op = "clear", !.self = i]

\* DataCloud::retain; P is the set of (key, reference) pairs the predicate accepts.
retain(i, P) ==
    /\ nodes' = [nodes EXCEPT ![i] = HashMapRetain(nodes[i], P)]
    /\ last' = [NoCall EXCEPT !.op = "retain", !.self = i]

\* Mutant of Entries: the list is walked from its end.
RECURSIVE EntriesBackwards(_)
EntriesBackwards(js) ==
    IF js = <<>> THEN <<>> ELSE EntriesBackwards(Tail(js)) \o nodes[js[1]]

\* The entries of the listed containers, in the order a loop over the list
\* and over each container's iterator visits them.
RECURSIVE Entries(_)
Entries(js) ==
    IF js = <<>> THEN <<>> ELSE nodes[js[1]] \o Entries(Tail(js))

\* Mutant of merge: the two loops are swapped, so self's entries go in last.
merge_self_last(i, j) ==
    /\ \E t \in InsertEach(InsertEach({<<>>}, nodes[j]), nodes[i]) :
          last' = [NoCall EXCEPT !.op = "merge", !.self = i, !.others = <<j>>,
                                 !.out = t]
    /\ UNCHANGED nodes

\* DataCloud::merge: self's entries are inserted into a new container, then other's.
merge(i, j) ==
    /\ \E t \in InsertEach(InsertEach({<<>>}, nodes[i]), nodes[j]) :
          last' = [NoCall EXCEPT !.op = "merge", !.self = i, !.others = <<j>>,
                                 !.out = t]
    /\ UNCHANGED nodes

\* DataCloud::merge_all: self's entries, then those of each listed container in turn.
merge_all(i, js) ==
    /\ \E t \in InsertEach(InsertEach({<<>>}, nodes[i]), Entries(js)) :
          last' = [NoCall EXCEPT !.op = "merge_all", !.self = i, !.others = js,
                                 !.out = t]
    /\ UNCHANGED nodes

\* What IntoIter yields for a container: the collected entries, popped from the end.
RECURSIVE Drained(_)
Drained(js) ==
    IF js = <<>> THEN <<>> ELSE Reverse(nodes[js[1]]) \o Drained(Tail(js))

\* Mutant of combine_with: self's entries go in first, as in merge_all.
combine_with_self_first(i, js) ==
    /\ \E t \in InsertEach(InsertEach({<<>>}, nodes[i]), Drained(js)) :
          last' = [NoCall EXCEPT !.op = "combine_with", !.self = i, !.others = js,
                                 !.out = t]
    /\ UNCHANGED nodes

\* CombineWith::combine_with: the listed containers are drained into a new
\* container in list order, then self's entries are inserted.  The list holds
\* containers by value; the model passes clones of the containers named in js.
combine_with(i, js) ==
    /\ \E t \in InsertEach(InsertEach({<<>>}, Drained(js)), nodes[i]) :
          last' = [NoCall EXCEPT !.op = "combine_with", !.self = i, !.others = js,
                                 !.out = t]
    /\ UNCHANGED nodes

\* (K, &V) tuple equality: keys equal and referenced values equal.
PairEq(e1, e2) == e1[1] = e2[1] /\ Val(e1[2]) = Val(e2[2])

Min(a, b) == IF a <= b THEN a ELSE b

\* Iterator::zip stops with the shorter of the two iterators.
Zip(s, t) == [n \in 1..Min(Len(s), Len(t)) |-> <<s[n], t[n]>>]

\* PartialEq::eq for DataCloud: all zipped entry pairs are equal.
Eq(s, t) == \A n \in DOMAIN Zip(s, t) : PairEq(Zip(s, t)[n][1], Zip(s, t)[n][2])

eq(i, j) ==
    /\ last' = [NoCall EXCEPT !.op = "eq", !.self = i, !.others = <<j>>,
                              !.flag = Eq(nodes[i], nodes[j])]
    /\ UNCHANGED nodes

Next ==
    \/ \E i \in CloudIds, k \in Keys, v \in Addrs :
          insert(i, k, v) /\ UNCHANGED rest
    \/ \E i \in CloudIds, k \in Keys, v \in Addrs :
          or_insert(i, k, v) /\ UNCHANGED rest
    \/ \E i \in CloudIds, k \in Keys : get(i, k) /\ UNCHANGED rest
    \/ \E i \in CloudIds, k \in Keys : remove(i, k) /\ UNCHANGED rest
    \/ \E i \in CloudIds, k \in Keys : contains_key(i, k) /\ UNCHANGED rest
    \/ \E i \in CloudIds : is_empty(i) /\ UNCHANGED rest
    \/ \E i \in CloudIds : clear(i) /\ UNCHANGED rest
    \/ \E i \in CloudIds : \E P \in SUBSET Range(nodes[i]) :
          retain(i, P) /\ UNCHANGED rest

Spec == Init /\ [][Next]_vars

\* ----------------------------------------------------------------------
\* The operations that read containers and return a new container or a bool
\* (merge, merge_all, combine_with, ==): they are functions of the tables they
\* are given and leave every table as it was, so each behaviour applies one of
\* them once, to containers a (= 1), b and c holding any tables the operations
\* above can build.
MergeIds == {1, 2, 3}

Tables ==
    {t \in UNION {[1..n -> Keys \X Addrs] : n \in 0..Cardinality(Keys)} :
        \A a, b \in DOMAIN t : a # b => t[a][1] # t[b][1]}

IdLists == UNION {[1..n -> MergeIds] : n \in 0..MaxOthers}

InitMerge ==
    /\ nodes \in [MergeIds -> Tables]
    /\ last = NoCall
    /\ live = MergeIds
    /\ Fresh

\* No call has been made yet.
Uncalled == last = NoCall

NextMerge ==
    \/ \E j \in MergeIds : Uncalled /\ merge(1, j) /\ UNCHANGED rest
    \/ \E js \in IdLists : Uncalled /\ merge_all(1, js) /\ UNCHANGED rest
    \/ \E js \in IdLists : Uncalled /\ combine_with(1, js) /\ UNCHANGED rest
    \/ \E i, j \in MergeIds : Uncalled /\ eq(i, j) /\ UNCHANGED rest

SpecMerge == InitMerge /\ [][NextMerge]_vars

\* ----------------------------------------------------------------------
\* The in-place unions, which take one of their two containers by value.
\* Mutant of HashMapExtend: entries whose key the table already has are skipped.
HashMapExtendSkipping(t, s) ==
    InsertEach({t}, SelectSeq(s, LAMBDA e : ~HashMapContainsKey(t, e[1])))

\* HashMap::extend with the entries another table's into_iter yields.
HashMapExtend(t, s) == InsertEach({t}, s)

\* DataCloud::merge_in_place: other is moved in and its entries extend self's table.
merge_in_place(i, j) ==
    /\ i \in live /\ j \in live /\ i # j
    /\ \E t \in HashMapExtend(nodes[i], nodes[j]) :
          nodes' = [nodes EXCEPT ![i] = t, ![j] = <<>>]
    /\ live' = live \ {j}
    /\ UNCHANGED <<borrow, frame, it, owned, threads>>
    /\ last' = [NoCall EXCEPT !.op = "merge_in_place", !.self = i, !.others = <<j>>]

\* DataCloud::merge_with: self is moved in and its entries extend other's table.
merge_with(i, j) ==
    /\ i \in live /\ j \in live /\ i # j
    /\ \E t \in HashMapExtend(nodes[j], nodes[i]) :
          nodes' = [nodes EXCEPT ![j] = t, ![i] = <<>>]
    /\ live' = live \ {i}
    /\ UNCHANGED <<borrow, frame, it, owned, threads>>
    /\ last' = [NoCall EXCEPT !.op = "merge_with", !.self = i, !.others = <<j>>]

InitMove ==
    /\ nodes \in [CloudIds -> Tables]
    /\ last = NoCall
    /\ live = CloudIds
    /\ Fresh

NextMove ==
    \/ \E i, j \in CloudIds : merge_in_place(i, j)
    \/ \E i, j \in CloudIds : merge_with(i, j)

SpecMove == InitMove /\ [][NextMove]_vars

\* ----------------------------------------------------------------------
\* retain and map step by step: the borrow they hold while the caller's
\* closure runs, and the calls that closure makes on a container.
\* Mutant of CanBorrowMut: an exclusive borrow is granted beside any other.
CanBorrowMutAlways(b) == b = b

\* RefCell::borrow_mut succeeds only on an unused cell.
CanBorrowMut(b) == b = 0

\* RefCell::borrow succeeds unless the cell is exclusively borrowed.
CanBorrow(b) == b >= 0

\* The closures a caller passes to map.
MapFns == {"same", "other"}

\* What closure f returns for entry e: an owned key and an owned value.
Apply(f, e) ==
    IF f = "same" THEN <<e[1], Val(e[2])>>
    ELSE <<CHOOSE k \in Keys : k # e[1], 1 - Val(e[2])>>

\* No closure is running and the thread has not panicked.
Idle == frame.op = "none" /\ last.ret # Panic

\* A call made by the running closure fails its borrow: the thread panics,
\* and unwinding drops the borrow the outer call holds.
BorrowPanic(op, j, k) ==
    /\ last' = [NoCall EXCEPT !.op = op, !.self = j, !.key = k, !.ret = Panic]
    /\ borrow' = [borrow EXCEPT ![frame.self] = 0]
    /\ frame' = NoFrame
    /\ UNCHANGED <<nodes, live, it, owned, threads>>

\* DataCloud::retain, up to the first call of the predicate.
retain_enter(i) ==
    /\ Idle /\ Uncalled
    /\ CanBorrowMut(borrow[i])
    /\ borrow' = [borrow EXCEPT ![i] = -1]
    /\ frame' = [NoFrame EXCEPT !.op = "retain", !.self = i,
                                 !.at = nodes[i], !.todo = nodes[i]]
    /\ UNCHANGED <<nodes, last, live, it, owned, threads>>

\* Mutant of retain_visit: the entry is erased when the predicate is true.
retain_visit_inverted(b) ==
    /\ frame.op = "retain" /\ frame.todo # <<>>
    /\ LET e == Head(frame.todo)
       IN  /\ nodes' = [nodes EXCEPT ![frame.self] =
                          IF b THEN HashMapRetain(@, Range(@) \ {e}) ELSE @]
           /\ frame' = [frame EXCEPT !.todo = Tail(@), !.seen = Append(@, e),
                                     !.kept = IF b THEN @ \cup {e} ELSE @]
           /\ last' = [NoCall EXCEPT !.op = "predicate", !.self = frame.self,
                                     !.key = e[1], !.val = e[2], !.flag = b]
    /\ UNCHANGED <<live, borrow, it, owned, threads>>

\* HashMap::retain's step: the predicate is called on the next entry, answers
\* b, and the entry is erased when b is false.
retain_visit(b) ==
    /\ frame.op = "retain" /\ frame.todo # <<>>
    /\ LET e == Head(frame.todo)
       IN  /\ nodes' = [nodes EXCEPT ![frame.self] =
                          IF b THEN @ ELSE HashMapRetain(@, Range(@) \ {e})]
           /\ frame' = [frame EXCEPT !.todo = Tail(@), !.seen = Append(@, e),
                                     !.kept = IF b THEN @ \cup {e} ELSE @]
           /\ last' = [NoCall EXCEPT !.op = "predicate", !.self = frame.self,
                                     !.key = e[1], !.val = e[2], !.flag = b]
    /\ UNCHANGED <<live, borrow, it, owned, threads>>

\* DataCloud::retain returns: the exclusive borrow is dropped.
retain_exit ==
    /\ frame.op = "retain" /\ frame.todo = <<>>
    /\ borrow' = [borrow EXCEPT ![frame.self] = 0]
    /\ frame' = NoFrame
    /\ last' = [NoCall EXCEPT !.op = "retain", !.self = frame.self]
    /\ UNCHANGED <<nodes, live, it, owned, threads>>

\* DataCloud::map, up to the first call of the closure.
map_enter(i, f) ==
    /\ Idle /\ Uncalled
    /\ CanBorrow(borrow[i])
    /\ borrow' = [borrow EXCEPT ![i] = @ + 1]
    /\ frame' = [NoFrame EXCEPT !.op = "map", !.self = i, !.f = f,
                                 !.at = nodes[i], !.todo = nodes[i]]
    /\ UNCHANGED <<nodes, last, live, it, owned, threads>>

\* The closure is called on the next entry and its pair is collected.
map_visit ==
    /\ frame.op = "map" /\ frame.todo # <<>>
    /\ LET e == Head(frame.todo)
       IN  /\ frame' = [frame EXCEPT !.todo = Tail(@), !.seen = Append(@, e),
                                     !.out = Append(@, Apply(frame.f, e))]
           /\ last' = [NoCall EXCEPT !.op = "f", !.self = frame.self,
                                     !.key = e[1], !.val = e[2]]
    /\ UNCHANGED <<nodes, live, borrow, it, owned, threads>>

\* Mutant of map_exit: the shared borrow outlives the call.
map_exit_keeping_borrow ==
    /\ frame.op = "map" /\ frame.todo = <<>>
    /\ it' = [kind |-> "map", self |-> frame.self, snap |-> frame.out,
              pairs |-> frame.out]
    /\ frame' = NoFrame
    /\ last' = [NoCall EXCEPT !.op = "map", !.self = frame.self,
                              !.out = frame.out]
    /\ UNCHANGED <<nodes, live, borrow, owned, threads>>

\* DataCloud::map returns Map::new(collected): the shared borrow is dropped.
map_exit ==
    /\ frame.op = "map" /\ frame.todo = <<>>
    /\ borrow' = [borrow EXCEPT ![frame.self] = @ - 1]
    /\ it' = [kind |-> "map", self |-> frame.self, snap |-> frame.out,
              pairs |-> frame.out]
    /\ frame' = NoFrame
    /\ last' = [NoCall EXCEPT !.op = "map", !.self = frame.self,
                              !.out = frame.out]
    /\ UNCHANGED <<nodes, live, owned, threads>>

\* The caller's closure is running, on the first entry of frame.todo.
InClosure == frame.op # "none" /\ frame.todo # <<>>

\* The running closure calls get(k) on container j.
nested_get(j, k) ==
    /\ InClosure
    /\ IF CanBorrow(borrow[j]) THEN get(j, k) /\ UNCHANGED rest
       ELSE BorrowPanic("get", j, k)

\* The running closure calls contains_key(k) on container j.
nested_contains_key(j, k) ==
    /\ InClosure
    /\ IF CanBorrow(borrow[j]) THEN contains_key(j, k) /\ UNCHANGED rest
       ELSE BorrowPanic("contains_key", j, k)

\* The running closure calls insert(k, v) on container j.
nested_insert(j, k, v) ==
    /\ InClosure
    /\ IF CanBorrowMut(borrow[j]) THEN insert(j, k, v) /\ UNCHANGED rest
       ELSE BorrowPanic("insert", j, k)

\* The running closure calls remove(k) on container j.
nested_remove(j, k) ==
    /\ InClosure
    /\ IF CanBorrowMut(borrow[j]) THEN remove(j, k) /\ UNCHANGED rest
       ELSE BorrowPanic("remove", j, k)

\* The running closure calls clear() on container j.
nested_clear(j) ==
    /\ InClosure
    /\ IF CanBorrowMut(borrow[j]) THEN clear(j) /\ UNCHANGED rest
       ELSE BorrowPanic("clear", j, 0)

InitBorrow ==
    /\ nodes \in [CloudIds -> Tables]
    /\ last = NoCall
    /\ live = CloudIds
    /\ Fresh

NextBorrow ==
    \/ \E i \in CloudIds : retain_enter(i)
    \/ \E b \in BOOLEAN : retain_visit(b)
    \/ retain_exit
    \/ \E i \in CloudIds, f \in MapFns : map_enter(i, f)
    \/ map_visit
    \/ map_exit
    \/ \E j \in CloudIds, k \in Keys : nested_get(j, k)
    \/ \E j \in CloudIds, k \in Keys : nested_contains_key(j, k)
    \/ \E j \in CloudIds, k \in Keys, v \in Addrs : nested_insert(j, k, v)
    \/ \E j \in CloudIds, k \in Keys : nested_remove(j, k)
    \/ \E j \in CloudIds : nested_clear(j)

SpecBorrow == InitBorrow /\ [][NextBorrow]_vars

\* ----------------------------------------------------------------------
\* The raw-pointer insert, indexing, the bulk helpers and into_owned.
\* The null pointer.
Null == 0

\* Err(NullPointerError(..)), as a result.
NullPointerError == -2

\* The lists of pairs a caller passes, and the lists of keys.
Vecs == UNION {[1..n -> Keys \X Addrs] : n \in 0..Cardinality(Keys)}
KeyVecs == UNION {[1..n -> Keys] : n \in 0..Cardinality(Keys)}

\* Mutant of insert_from_raw: the null check is missing.
insert_from_raw_unchecked(i, k, p) ==
    /\ \E t \in HashMapInsert(nodes[i], k, p) :
          nodes' = [nodes EXCEPT ![i] = t]
    /\ last' = [NoCall EXCEPT !.op = "insert_from_raw", !.self = i, !.key = k,
                              !.val = p, !.ret = HashMapGet(nodes[i], k)]

\* DataCloud::insert_from_raw: Err for a null pointer, else Ok(insert(..)).
insert_from_raw(i, k, p) ==
    IF p = Null
    THEN /\ last' = [NoCall EXCEPT !.op = "insert_from_raw", !.self = i,
                                   !.key = k, !.val = p,
                                   !.ret = NullPointerError]
         /\ UNCHANGED nodes
    ELSE /\ \E t \in HashMapInsert(nodes[i], k, p) :
               nodes' = [nodes EXCEPT ![i] = t]
         /\ last' = [NoCall EXCEPT !.op = "insert_from_raw", !.self = i,
                                   !.key = k, !.val = p,
                                   !.ret = HashMapGet(nodes[i], k)]

\* DataCloud::get_mut: get's scan, the reference handed out as mutable.
get_mut(i, k) ==
    /\ last' = [NoCall EXCEPT !.op = "get_mut", !.self = i, !.key = k,
                              !.ret = ScanFrom(nodes[i], k, 1)]
    /\ UNCHANGED nodes

\* Mutant of get_as_raw: the pointer of the first entry, whatever its key.
get_as_raw_first_entry(i, k) ==
    /\ last' = [NoCall EXCEPT !.op = "get_as_raw", !.self = i, !.key = k,
                              !.ret = IF nodes[i] = <<>> THEN NoneRef
                                      ELSE nodes[i][1][2]]
    /\ UNCHANGED nodes

\* DataCloud::get_as_raw: get's scan, the reference handed out as a pointer.
get_as_raw(i, k) ==
    /\ last' = [NoCall EXCEPT !.op = "get_as_raw", !.self = i, !.key = k,
                              !.ret = ScanFrom(nodes[i], k, 1)]
    /\ UNCHANGED nodes

\* Mutant of Unwrap: None comes out as a reference.
UnwrapOrFirst(r) == IF r = NoneRef THEN 1 ELSE r

\* Option::unwrap: the reference of Some, a panic for None.
Unwrap(r) == IF r = NoneRef THEN Panic ELSE r

\* Index::index: self.get(index).unwrap().
index(i, k) ==
    /\ last' = [NoCall EXCEPT !.op = "index", !.self = i, !.key = k,
                              !.ret = Unwrap(ScanFrom(nodes[i], k, 1))]
    /\ UNCHANGED nodes

\* IndexMut::index_mut: self.get_mut(index).unwrap().
index_mut(i, k) ==
    /\ last' = [NoCall EXCEPT !.op = "index_mut", !.self = i, !.key = k,
                              !.ret = Unwrap(ScanFrom(nodes[i], k, 1))]
    /\ UNCHANGED nodes

\* Mutant of InsertAll: every position reports what the table held at the call.
InsertAllStale(t, ps) ==
    {<<u, [n \in DOMAIN ps |-> HashMapGet(t, ps[n][1])]>> :
       u \in InsertEach({t}, ps)}

\* The loop of insert_all: the tables it can end in, each with the list of
\* what the inserts returned.
RECURSIVE InsertAll(_, _)
InsertAll(t, ps) ==
    IF ps = <<>> THEN {<<t, <<>>>>}
    ELSE UNION {{<<r[1], <<HashMapGet(t, ps[1][1])>> \o r[2]>> :
                   r \in InsertAll(u, Tail(ps))} :
                u \in HashMapInsert(t, ps[1][1], ps[1][2])}

\* DataCloud::insert_all.
insert_all(i, ps) ==
    /\ \E r \in InsertAll(nodes[i], ps) :
          /\ nodes' = [nodes EXCEPT ![i] = r[1]]
          /\ last' = [NoCall EXCEPT !.op = "insert_all", !.self = i,
                                    !.others = ps, !.out = r[2]]

\* The loop of get_all and get_mut_all: one scan per key, in list order.
GetEach(t, ks) == [n \in DOMAIN ks |-> ScanFrom(t, ks[n], 1)]

\* DataCloud::get_all.
get_all(i, ks) ==
    /\ last' = [NoCall EXCEPT !.op = "get_all", !.self = i, !.others = ks,
                              !.out = GetEach(nodes[i], ks)]
    /\ UNCHANGED nodes

\* DataCloud::get_mut_all.
get_mut_all(i, ks) ==
    /\ last' = [NoCall EXCEPT !.op = "get_mut_all", !.self = i, !.others = ks,
                              !.out = GetEach(nodes[i], ks)]
    /\ UNCHANGED nodes

\* Mutant of Cloned: the reference is kept in place of a copy of the value.
ClonedShallow(t) == t

\* The pairs into_owned inserts: each key with a copy of the value behind its
\* reference.
Cloned(t) == [n \in DOMAIN t |-> <<t[n][1], Val(t[n][2])>>]

\* IntoOwned::into_owned: a new HashMap of cloned keys and cloned values.
into_owned(i) ==
    /\ owned' \in InsertEach({<<>>}, Cloned(nodes[i]))
    /\ last' = [NoCall EXCEPT !.op = "into_owned", !.self = i]
    /\ UNCHANGED <<nodes, live, borrow, frame, it, threads>>

\* PartialOrd::partial_cmp of two numbers.
Cmp(a, b) == IF a < b THEN "Less" ELSE IF a > b THEN "Greater" ELSE "Equal"

\* Ordering::then: the first ordering unless it is Equal.
Then(a, b) == IF a = "Equal" THEN b ELSE a

\* partial_cmp of two (&K, &&V) tuples: by key, then by referenced value.
PairCmp(e1, e2) == Then(Cmp(e1[1], e2[1]), Cmp(Val(e1[2]), Val(e2[2])))

\* The fold of partial_cmp over the first n zipped pairs, from Equal.
RECURSIVE FoldCmp(_, _)
FoldCmp(z, n) ==
    IF n = 0 THEN "Equal"
    ELSE Then(FoldCmp(z, n - 1), PairCmp(z[n][1], z[n][2]))

\* PartialOrd::partial_cmp for DataCloud; last.out is <<o>> for Some(o).
partial_cmp(i, j) ==
    /\ last' = [NoCall EXCEPT !.op = "partial_cmp", !.self = i,
                              !.others = <<j>>,
                              !.out = <<FoldCmp(Zip(nodes[i], nodes[j]),
                                                Len(Zip(nodes[i], nodes[j])))>>]
    /\ UNCHANGED nodes

\* Every table two containers can hold, and nothing called yet.
InitCall ==
    /\ nodes \in [CloudIds -> Tables]
    /\ last = NoCall
    /\ live = CloudIds
    /\ Fresh

\* The call before was into_owned.
AfterOwned == last.op = "into_owned"

\* The call before was insert.
AfterInsert == last.op = "insert"

\* One call per behaviour, and one more on the table after an into_owned, or
\* one lookup after an insert.
NextCall ==
    \/ \E i \in CloudIds, k \in Keys, v \in Addrs :
          (Uncalled \/ AfterOwned) /\ insert(i, k, v) /\ UNCHANGED rest
    \/ \E i \in CloudIds, k \in Keys :
          (Uncalled \/ AfterOwned) /\ remove(i, k) /\ UNCHANGED rest
    \/ \E i \in CloudIds :
          (Uncalled \/ AfterOwned) /\ clear(i) /\ UNCHANGED rest
    \/ \E i \in CloudIds, k \in Keys, p \in {Null} \cup Addrs :
          Uncalled /\ insert_from_raw(i, k, p) /\ UNCHANGED rest
    \/ \E i \in CloudIds, k \in Keys :
          (Uncalled \/ AfterInsert) /\ get(i, k) /\ UNCHANGED rest
    \/ \E i \in CloudIds, k \in Keys :
          (Uncalled \/ AfterInsert) /\ get_mut(i, k) /\ UNCHANGED rest
    \/ \E i \in CloudIds, k \in Keys :
          (Uncalled \/ AfterInsert) /\ get_as_raw(i, k) /\ UNCHANGED rest
    \/ \E i \in CloudIds, k \in Keys :
          Uncalled /\ contains_key(i, k) /\ UNCHANGED rest
    \/ \E i \in CloudIds, k \in Keys :
          Uncalled /\ index(i, k) /\ UNCHANGED rest
    \/ \E i \in CloudIds, k \in Keys :
          Uncalled /\ index_mut(i, k) /\ UNCHANGED rest
    \/ \E i \in CloudIds, ps \in Vecs :
          Uncalled /\ insert_all(i, ps) /\ UNCHANGED rest
    \/ \E i \in CloudIds, ks \in KeyVecs :
          Uncalled /\ get_all(i, ks) /\ UNCHANGED rest
    \/ \E i \in CloudIds, ks \in KeyVecs :
          Uncalled /\ get_mut_all(i, ks) /\ UNCHANGED rest
    \/ \E i \in CloudIds : Uncalled /\ into_owned(i)
    \/ \E i, j \in CloudIds : Uncalled /\ partial_cmp(i, j) /\ UNCHANGED rest

SpecCall == InitCall /\ [][NextCall]_vars

\* ----------------------------------------------------------------------
\* The adapters and the conversions to and from a list of pairs.
\* An adapter holds the Vec it was built from (pairs); snap is that Vec as it
\* was at construction.  The elements of Iter and IterMut are references to
\* the table's slots, recorded as the entries the slots held at construction.
\* into_iter().collect() or iter().collect() on a table: its entries in
\* iteration order.
Collect(t) == [n \in DOMAIN t |-> <<t[n][1], t[n][2]>>]

\* What building an adapter over container i leaves in it and last.
Built(kind, i) ==
    /\ it' = [kind |-> kind, self |-> i, snap |-> Collect(nodes[i]),
              pairs |-> Collect(nodes[i])]
    /\ last' = [NoCall EXCEPT !.op = kind, !.self = i]

\* What taking container i by value leaves of it.
Moved(i) ==
    /\ nodes' = [nodes EXCEPT ![i] = <<>>]
    /\ live' = live \ {i}

\* DataCloud::into_pairs: the container is moved into an IntoPairs.
into_pairs(i) ==
    /\ i \in live
    /\ Built("into_pairs", i) /\ Moved(i)
    /\ UNCHANGED <<borrow, frame, owned, threads>>

\* IntoIterator::into_iter: the container is moved into an IntoIter.
into_iter(i) ==
    /\ i \in live
    /\ Built("into_iter", i) /\ Moved(i)
    /\ UNCHANGED <<borrow, frame, owned, threads>>

\* DataCloud::iter: references collected through as_ptr; no borrow is taken.
iter(i) ==
    /\ i \in live
    /\ Built("iter", i)
    /\ UNCHANGED <<nodes, live, borrow, frame, owned, threads>>

\* DataCloud::iter_mut: references collected through as_ptr; no borrow is taken.
iter_mut(i) ==
    /\ i \in live
    /\ Built("iter_mut", i)
    /\ UNCHANGED <<nodes, live, borrow, frame, owned, threads>>

\* Mutant of next: the Vec is read from its front.
next_from_front ==
    /\ it.kind # "none"
    /\ IF it.pairs = <<>>
       THEN /\ last' = [NoCall EXCEPT !.op = "next", !.self = it.self]
            /\ UNCHANGED it
       ELSE /\ last' = [NoCall EXCEPT !.op = "next", !.self = it.self,
                                      !.out = <<Head(it.pairs)>>]
            /\ it' = [it EXCEPT !.pairs = Tail(@)]
    /\ UNCHANGED <<nodes, live, borrow, frame, owned, threads>>

\* Iterator::next of each adapter: self.pairs.pop().  last.out is <<>> for
\* None and <<e>> for Some(e).
next ==
    /\ it.kind # "none"
    /\ IF it.pairs = <<>>
       THEN /\ last' = [NoCall EXCEPT !.op = "next", !.self = it.self]
            /\ UNCHANGED it
       ELSE /\ last' = [NoCall EXCEPT !.op = "next", !.self = it.self,
                                      !.out = <<it.pairs[Len(it.pairs)]>>]
            /\ it' = [it EXCEPT !.pairs = SubSeq(@, 1, Len(@) - 1)]
    /\ UNCHANGED <<nodes, live, borrow, frame, owned, threads>>

\* Mutant of len: the length the Vec had at construction.
len_at_construction ==
    /\ it.kind \in {"into_iter", "map", "iter", "iter_mut"}
    /\ last' = [NoCall EXCEPT !.op = "len", !.self = it.self,
                              !.ret = Len(it.snap)]
    /\ UNCHANGED <<nodes, live, borrow, frame, it, owned, threads>>

\* ExactSizeIterator::len of IntoIter, Map, Iter and IterMut: self.pairs.len().
len ==
    /\ it.kind \in {"into_iter", "map", "iter", "iter_mut"}
    /\ last' = [NoCall EXCEPT !.op = "len", !.self = it.self,
                              !.ret = Len(it.pairs)]
    /\ UNCHANGED <<nodes, live, borrow, frame, it, owned, threads>>

\* DataCloud::into_vec: the container is moved into the Vec of its entries.
into_vec(i) ==
    /\ i \in live
    /\ last' = [NoCall EXCEPT !.op = "into_vec", !.self = i,
                              !.out = Collect(nodes[i])]
    /\ Moved(i)
    /\ UNCHANGED <<borrow, frame, it, owned, threads>>

\* Mutant of FromVec: the first pair of the list is left out.
FromVecSkipping(v) == InsertEach({<<>>}, SubSeq(v, 2, Len(v)))

\* The loop of from_vec: each pair inserted, in list order, into a new map.
FromVec(v) == InsertEach({<<>>}, v)

\* DataCloud::from_vec: a new container, here in the free place j.
from_vec(j, v) ==
    /\ j \notin live
    /\ \E t \in FromVec(v) : nodes' = [nodes EXCEPT ![j] = t]
    /\ live' = live \cup {j}
    /\ last' = [NoCall EXCEPT !.op = "from_vec", !.self = j, !.others = v]
    /\ UNCHANGED <<borrow, frame, it, owned, threads>>

\* FromIterator::from_iter on the adapter: what is left in it is collected
\* into a Vec, in the order next produces it, and handed to from_vec.
from_iter(j) ==
    /\ j \notin live
    /\ it.kind \in {"into_pairs", "into_iter"}
    /\ \E t \in FromVec(Reverse(it.pairs)) : nodes' = [nodes EXCEPT ![j] = t]
    /\ live' = live \cup {j}
    /\ last' = [NoCall EXCEPT !.op = "from_iter", !.self = j,
                              !.others = Reverse(it.pairs)]
    /\ it' = NoIter
    /\ UNCHANGED <<borrow, frame, owned, threads>>

\* One container with any table, and a free place for a second.
InitIter ==
    /\ nodes \in [CloudIds -> Tables]
    /\ live \in {{i} : i \in CloudIds}
    /\ \A i \in CloudIds \ live : nodes[i] = <<>>
    /\ last = NoCall
    /\ Fresh

\* The pairs of a list in every order.
Orders(v) == {w \in [DOMAIN v -> Range(v)] : Range(w) = Range(v)}

NextIter ==
    \/ \E i \in CloudIds : Idle /\ into_pairs(i)
    \/ \E i \in CloudIds : Idle /\ into_iter(i)
    \/ \E i \in CloudIds : Idle /\ iter(i)
    \/ \E i \in CloudIds : Idle /\ iter_mut(i)
    \/ \E i \in live, f \in MapFns : map_enter(i, f)
    \/ map_visit
    \/ map_exit
    \/ Idle /\ next
    \/ Idle /\ len
    \/ \E i \in CloudIds : Idle /\ into_vec(i)
    \/ \E j \in CloudIds : \E v \in Orders(last.out) :
          Idle /\ last.op = "into_vec" /\ from_vec(j, v)
    \/ \E j \in CloudIds : Idle /\ from_iter(j)
    \/ \E i \in live, k \in Keys, v \in Addrs :
          Idle /\ CanBorrowMut(borrow[i]) /\ insert(i, k, v) /\ UNCHANGED rest
    \/ \E i \in live, k \in Keys :
          Idle /\ CanBorrowMut(borrow[i]) /\ remove(i, k) /\ UNCHANGED rest
    \/ \E i \in live :
          Idle /\ CanBorrowMut(borrow[i]) /\ clear(i) /\ UNCHANGED rest
    \/ \E i \in live : \E P \in SUBSET Range(nodes[i]) :
          Idle /\ CanBorrowMut(borrow[i]) /\ retain(i, P) /\ UNCHANGED rest

SpecIter == InitIter /\ [][NextIter]_vars

\* ----------------------------------------------------------------------
\* Calls one after another, with the borrow each takes and drops.
\* What borrow_mut writes to an unused flag, and what dropping its guard
\* writes back; the same for borrow.
TakeMut(b) == b - 1

\* Mutant of DropMut: the guard is forgotten and the flag stays as taken.
DropMutLeaking(b) == b

DropMut(b) == b + 1
TakeRef(b) == b + 1
DropRef(b) == b - 1

\* The container the calls are made on.
Shared == 1

\* A call that holds borrow_mut on container i from its first statement to
\* its return.
HeldMut(i) ==
    /\ CanBorrowMut(borrow[i])
    /\ borrow' = [borrow EXCEPT ![i] = DropMut(TakeMut(@))]

\* A call that holds borrow on each container of S while it reads it.
HeldRef(S) ==
    /\ \A i \in S : CanBorrow(borrow[i])
    /\ borrow' = [i \in DOMAIN borrow |->
                    IF i \in S THEN DropRef(TakeRef(borrow[i])) ELSE borrow[i]]

\* DataCloud::contains_value: whether some reference's value equals v.
contains_value(i, v) ==
    /\ last' = [NoCall EXCEPT !.op = "contains_value", !.self = i, !.val = v,
                              !.flag = (\E n \in DOMAIN nodes[i] :
                                          Val(nodes[i][n][2]) = v)]
    /\ UNCHANGED nodes

\* The calls that follow one another are made on container Shared; the other
\* container is the one merges read.
\* The single-key calls follow one another in any order; the calls that take
\* a list, read a second container, run a closure or build a mapping are the
\* first call of a behaviour.
\* What a call that builds nothing leaves as it is, beside the flags.
kept == <<live, frame, it, owned, threads>>

NextRelease ==
    \/ \E k \in Keys, v \in Addrs :
          Idle /\ insert(Shared, k, v) /\ HeldMut(Shared) /\ UNCHANGED kept
    \/ \E k \in Keys, v \in Addrs :
          Idle /\ or_insert(Shared, k, v) /\ HeldMut(Shared) /\ UNCHANGED kept
    \/ \E k \in Keys :
          Idle /\ remove(Shared, k) /\ HeldMut(Shared) /\ UNCHANGED kept
    \/ Idle /\ clear(Shared) /\ HeldMut(Shared) /\ UNCHANGED kept
    \/ \E k \in Keys :
          Idle /\ get(Shared, k) /\ HeldRef({Shared}) /\ UNCHANGED kept
    \/ \E k \in Keys :
          Idle /\ get_mut(Shared, k) /\ HeldRef({Shared}) /\ UNCHANGED kept
    \/ \E k \in Keys :
          Idle /\ contains_key(Shared, k) /\ HeldRef({Shared}) /\ UNCHANGED kept
    \/ \E v \in {Val(a) : a \in Addrs} :
          Idle /\ contains_value(Shared, v) /\ HeldRef({Shared})
               /\ UNCHANGED kept
    \/ Idle /\ is_empty(Shared) /\ HeldRef({Shared}) /\ UNCHANGED kept
    \/ \E j \in CloudIds :
          Idle /\ Uncalled /\ j \in live /\ merge(Shared, j) /\ HeldRef({Shared, j})
               /\ UNCHANGED kept
    \/ \E js \in IdLists :
          /\ Range(js) \subseteq live
          /\ Idle /\ Uncalled /\ merge_all(Shared, js) /\ HeldRef({Shared} \cup Range(js))
          /\ UNCHANGED kept
    \/ \E j \in CloudIds : Idle /\ merge_in_place(Shared, j) /\ HeldMut(Shared)
    \/ Idle /\ Uncalled /\ into_owned(Shared) /\ HeldRef({Shared})
    \/ \E ps \in Vecs :
          Idle /\ Uncalled /\ insert_all(Shared, ps) /\ HeldMut(Shared) /\ UNCHANGED kept
    \/ \E ks \in KeyVecs :
          Idle /\ Uncalled /\ get_all(Shared, ks) /\ HeldRef({Shared}) /\ UNCHANGED kept
    \/ retain_enter(Shared)
    \/ \E b \in BOOLEAN : retain_visit(b)
    \/ retain_exit
    \/ \E f \in MapFns : map_enter(Shared, f)
    \/ map_visit
    \/ map_exit

\* Container Shared with any table, the others empty.
InitRelease ==
    /\ nodes \in [CloudIds -> Tables]
    /\ \A i \in CloudIds \ {Shared} : nodes[i] = <<>>
    /\ last = NoCall
    /\ live = CloudIds
    /\ Fresh

SpecRelease == InitRelease /\ [][NextRelease]_vars

\* ----------------------------------------------------------------------
\* The calls that only read, and what their results share with their inputs.
\* The place a built container is put in.
Result == 3

\* Mutant of clone: the table is moved into the new container.
clone_moving(i, r) ==
    /\ i \in live /\ r \notin live
    /\ \E t \in InsertEach({<<>>}, nodes[i]) :
          nodes' = [nodes EXCEPT ![r] = t, ![i] = <<>>]
    /\ live' = live \cup {r}
    /\ last' = [NoCall EXCEPT !.op = "clone", !.self = i, !.others = <<r>>]
    /\ UNCHANGED <<borrow, frame, it, owned, threads>>

\* Clone::clone: a new container, in the free place r, whose table is a
\* clone of the HashMap.
clone(i, r) ==
    /\ i \in live /\ r \notin live
    /\ \E t \in InsertEach({<<>>}, nodes[i]) :
          nodes' = [nodes EXCEPT ![r] = t]
    /\ live' = live \cup {r}
    /\ last' = [NoCall EXCEPT !.op = "clone", !.self = i, !.others = <<r>>]
    /\ UNCHANGED <<borrow, frame, it, owned, threads>>

\* What Hash::hash feeds the hasher: the length, then each key and value.
RECURSIVE Hashed(_)
Hashed(t) ==
    IF t = <<>> THEN <<>>
    ELSE <<t[1][1], Val(t[1][2])>> \o Hashed(Tail(t))

\* Hash::hash for DataCloud.
hash(i) ==
    /\ last' = [NoCall EXCEPT !.op = "hash", !.self = i,
                              !.out = <<Len(nodes[i])>> \o Hashed(nodes[i])]
    /\ UNCHANGED nodes

\* The container merge, merge_all or combine_with returned is kept, in the
\* free place r.
keep(r) ==
    /\ last.op \in {"merge", "merge_all", "combine_with"}
    /\ r \notin live
    /\ nodes' = [nodes EXCEPT ![r] = last.out]
    /\ live' = live \cup {r}
    /\ last' = [NoCall EXCEPT !.op = "keep", !.self = last.self,
                              !.others = <<r>>]
    /\ UNCHANGED <<borrow, frame, it, owned, threads>>

\* Two containers with any tables, and a free place for a third.
InitRead ==
    /\ nodes \in [MergeIds -> Tables]
    /\ nodes[Result] = <<>>
    /\ last = NoCall
    /\ live = MergeIds \ {Result}
    /\ Fresh

\* A container was just built from others.
Built3 == last.op \in {"keep", "clone"}

\* One reading call on container 1, the container it returned kept, and one
\* write on any container.
NextRead ==
    \/ \E k \in Keys : Uncalled /\ get(1, k) /\ UNCHANGED rest
    \/ \E k \in Keys : Uncalled /\ get_mut(1, k) /\ UNCHANGED rest
    \/ \E k \in Keys : Uncalled /\ get_as_raw(1, k) /\ UNCHANGED rest
    \/ \E ks \in KeyVecs : Uncalled /\ get_all(1, ks) /\ UNCHANGED rest
    \/ \E k \in Keys : Uncalled /\ contains_key(1, k) /\ UNCHANGED rest
    \/ \E v \in {Val(a) : a \in Addrs} :
          Uncalled /\ contains_value(1, v) /\ UNCHANGED rest
    \/ Uncalled /\ is_empty(1) /\ UNCHANGED rest
    \/ \E j \in live : Uncalled /\ merge(1, j) /\ UNCHANGED rest
    \/ \E js \in IdLists :
          Uncalled /\ Range(js) \subseteq live /\ merge_all(1, js)
                   /\ UNCHANGED rest
    \/ \E js \in IdLists :
          Uncalled /\ Range(js) \subseteq live /\ combine_with(1, js)
                   /\ UNCHANGED rest
    \/ Uncalled /\ into_owned(1)
    \/ \E j \in live : Uncalled /\ eq(1, j) /\ UNCHANGED rest
    \/ Uncalled /\ hash(1) /\ UNCHANGED rest
    \/ Uncalled /\ clone(1, Result)
    \/ keep(Result)
    \/ \E x \in live, k \in Keys, v \in Addrs :
          Built3 /\ insert(x, k, v) /\ UNCHANGED rest
    \/ \E x \in live, k \in Keys : Built3 /\ remove(x, k) /\ UNCHANGED rest

SpecRead == InitRead /\ [][NextRead]_vars

\* ----------------------------------------------------------------------
\* Two threads calling insert and get on container 1, which Sync lets them
\* share.  RefCell keeps its flag in a Cell: borrow_mut and borrow read the
\* flag and then write it, and nothing makes the two one step.

\* Thread t calls insert or get: the call starts.
thread_call(t, op) ==
    /\ threads[t].pc = "idle"
    /\ threads' = [threads EXCEPT ![t] = [pc |-> "called", op |-> op, seen |-> 0]]
    /\ UNCHANGED <<nodes, last, live, borrow, frame, it, owned>>

\* borrow_mut / borrow, first half: the flag is read.
borrow_load(t) ==
    /\ threads[t].pc = "called"
    /\ threads' = [threads EXCEPT ![t].pc = "loaded", ![t].seen = borrow[Shared]]
    /\ UNCHANGED <<nodes, last, live, borrow, frame, it, owned>>

\* borrow_mut / borrow, second half: the value read decides; the flag is
\* written from it, or the thread panics.
borrow_store(t) ==
    /\ threads[t].pc = "loaded"
    /\ LET mut == threads[t].op = "insert"
           ok == IF mut THEN CanBorrowMut(threads[t].seen)
                 ELSE CanBorrow(threads[t].seen)
       IN  IF ok
           THEN /\ borrow' = [borrow EXCEPT ![Shared] =
                                IF mut THEN -1 ELSE threads[t].seen + 1]
                /\ threads' = [threads EXCEPT ![t].pc = "holding"]
           ELSE /\ threads' = [threads EXCEPT ![t].pc = "panicked"]
                /\ UNCHANGED borrow
    /\ UNCHANGED <<nodes, last, live, frame, it, owned>>

\* The rest of insert in thread t: the table is written, the guard dropped.
thread_insert(t, k, v) ==
    /\ threads[t].pc = "holding" /\ threads[t].op = "insert"
    /\ insert(Shared, k, v)
    /\ borrow' = [borrow EXCEPT ![Shared] = @ + 1]
    /\ threads' = [threads EXCEPT ![t].pc = "returned"]
    /\ UNCHANGED <<live, frame, it, owned>>

\* The rest of get in thread t: the table is scanned, the guard dropped.
thread_get(t, k) ==
    /\ threads[t].pc = "holding" /\ threads[t].op = "get"
    /\ get(Shared, k)
    /\ borrow' = [borrow EXCEPT ![Shared] = @ - 1]
    /\ threads' = [threads EXCEPT ![t].pc = "returned"]
    /\ UNCHANGED <<live, frame, it, owned>>

InitThreads ==
    /\ nodes \in [CloudIds -> Tables]
    /\ last = NoCall
    /\ live = CloudIds
    /\ Fresh

NextThreads ==
    \/ \E t \in Threads, op \in {"insert", "get"} : thread_call(t, op)
    \/ \E t \in Threads : borrow_load(t)
    \/ \E t \in Threads : borrow_store(t)
    \/ \E t \in Threads, k \in Keys, v \in Addrs : thread_insert(t, k, v)
    \/ \E t \in Threads, k \in Keys : thread_get(t, k)

SpecThreads == InitThreads /\ [][NextThreads]_vars

\* ----------------------------------------------------------------------
\* Vocabulary of the properties.
\* The references table t records under key k (at most one, keys being unique).
Refs(t, k) == {t[n][2] : n \in {m \in DOMAIN t : t[m][1] = k}}

Has(t, k) == Refs(t, k) # {}

\* The call recorded in l writes key k of container i.
WritesKey(l, i, k) ==
    /\ l.self = i
    /\ \/ l.op \in {"clear", "retain"}
       \/ l.op \in {"insert", "remove"} /\ l.key = k

\* C1: after insert(k, r) the table records exactly r under k; get(k) returns
\* the recorded reference itself (its address, not an equal value); and a key
\* that has a reference keeps it over every call that is not an insert or
\* remove of that key, a clear or a retain on its container.
C1_InsertThenGet ==
    [][ /\ last'.op = "insert" =>
              Refs(nodes'[last'.self], last'.key) = {last'.val}
        /\ last'.op = "get" =>
              IF Has(nodes[last'.self], last'.key)
              THEN Refs(nodes[last'.self], last'.key) = {last'.ret}
              ELSE last'.ret = NoneRef
        /\ \A i \in CloudIds, k \in Keys :
              (Has(nodes[i], k) /\ ~WritesKey(last', i, k)) =>
                  Refs(nodes'[i], k) = Refs(nodes[i], k) ]_vars

\* A get that found its key in the second slot, behind another key's reference.
C1_Witness ==
    /\ last.op = "get"
    /\ last.ret # NoneRef
    /\ Len(nodes[last.self]) = 2
    /\ nodes[last.self][2][1] = last.key
    /\ nodes[last.self][1][2] # last.ret

\* C2: insert is enabled in every state; it returns the reference recorded
\* under k before the call, or None when there was none; afterwards k has
\* exactly one entry, the number of entries has grown by one when k was new
\* and is unchanged otherwise, and every other key's entry is as before.
C2_InsertReturnsPrevious ==
    /\ [](\A i \in CloudIds, k \in Keys, v \in Addrs : ENABLED insert(i, k, v))
    /\ [][ last'.op = "insert" =>
            LET t == nodes[last'.self]
                u == nodes'[last'.self]
                k == last'.key
            IN  /\ IF Has(t, k) THEN Refs(t, k) = {last'.ret}
                                ELSE last'.ret = NoneRef
                /\ Cardinality({n \in DOMAIN u : u[n][1] = k}) = 1
                /\ Len(u) = Len(t) + (IF Has(t, k) THEN 0 ELSE 1)
                /\ \A k2 \in Keys \ {k} :
                      /\ Refs(u, k2) = Refs(t, k2)
                      /\ Cardinality({n \in DOMAIN u : u[n][1] = k2})
                            = Cardinality({n \in DOMAIN t : t[n][1] = k2}) ]_vars

\* An insert that replaced a different reference in a table of two entries.
C2_Witness ==
    /\ last.op = "insert"
    /\ last.ret # NoneRef
    /\ last.ret # last.val
    /\ Len(nodes[last.self]) = 2

\* C3: the set of keys contains_key reports is empty at construction, gains
\* exactly k at insert(k, _) and or_insert(k, _), loses exactly k at remove(k),
\* loses every key at clear, only loses keys at retain and is left alone by
\* the reading calls; remove returns the removed reference (None for an absent
\* key), leaves the other entries alone, and a get(k) after it finds nothing.
C3_ContainsKey ==
    /\ \A i \in CloudIds, k \in Keys : ~Has(nodes[i], k)
    /\ [][ LET i == last'.self
               k == last'.key
               t == nodes[i]
               u == nodes'[i]
           IN  /\ last'.op = "contains_key" => last'.flag = Has(t, k)
               /\ last'.op \in {"insert", "or_insert"} =>
                     /\ Has(u, k)
                     /\ \A k2 \in Keys \ {k} : Has(u, k2) = Has(t, k2)
               /\ last'.op = "remove" =>
                     /\ IF Has(t, k) THEN Refs(t, k) = {last'.ret}
                                     ELSE last'.ret = NoneRef
                     /\ ~Has(u, k)
                     /\ ScanFrom(u, k, 1) = NoneRef
                     /\ \A k2 \in Keys \ {k} : Refs(u, k2) = Refs(t, k2)
               /\ last'.op = "clear" => \A k2 \in Keys : ~Has(u, k2)
               /\ last'.op = "retain" => \A k2 \in Keys : Refs(u, k2) \subseteq Refs(t, k2)
               /\ last'.op \in {"get", "contains_key", "is_empty"} => u = t
               /\ \A j \in CloudIds \ {i} : nodes'[j] = nodes[j] ]_vars

\* A remove that took one of two entries and returned its reference.
C3_Witness ==
    /\ last.op = "remove"
    /\ last.ret # NoneRef
    /\ Len(nodes[last.self]) = 1
    /\ ~Has(nodes[last.self], last.key)

C5_ReturnsWhetherInserted ==
    [][ last'.op = "or_insert" =>
          last'.flag = ~Has(nodes[last'.self], last'.key) ]_vars

\* Structural equality of two tables: the same keys, and under every key
\* references to equal values.
StructEq(s, t) ==
    /\ KeysOf(s) = KeysOf(t)
    /\ \A k \in KeysOf(s) :
          {Val(r) : r \in Refs(s, k)} = {Val(r) : r \in Refs(t, k)}

\* C6: a == b is true exactly when a and b hold the same keys and, under every
\* key, references to equal values.
C6_StructuralEquality ==
    last.op = "eq" =>
        last.flag = StructEq(nodes[last.self], nodes[last.others[1]])

\* C7: after clear the container has no entry: is_empty would return true,
\* get and contains_key find no key, and the container equals a new one (on
\* either side of ==); is_empty returns true exactly when there is no entry.
C7_Clear ==
    [][ /\ last'.op = "clear" =>
              LET u == nodes'[last'.self]
              IN  /\ Len(u) = 0
                  /\ \A k \in Keys :
                        ScanFrom(u, k, 1) = NoneRef /\ ~HashMapContainsKey(u, k)
                  /\ Eq(u, <<>>) /\ Eq(<<>>, u)
        /\ last'.op = "is_empty" =>
              last'.flag = (Range(nodes[last'.self]) = {}) ]_vars

\* A clear has emptied one container while the other still has entries.
C7_Witness ==
    /\ last.op = "clear"
    /\ nodes[last.self] = <<>>
    /\ \E j \in CloudIds : Len(nodes[j]) = 2

\* The position of the last container of the list js that has key k, 0 if none.
LastWith(js, k) ==
    LET S == {n \in DOMAIN js : Has(nodes[js[n]], k)}
    IN  IF S = {} THEN 0 ELSE CHOOSE n \in S : \A m \in S : m <= n

UniqueKeys(t) == \A a, b \in DOMAIN t : a # b => t[a][1] # t[b][1]

\* C8: merge(a, b) returns a container whose keys are those of a and of b,
\* with b's reference under every key b has and a's reference under the keys
\* only a has; a and b are as they were.
C8_Merge ==
    [][ last'.op = "merge" =>
          LET a == nodes[last'.self]
              b == nodes[last'.others[1]]
              out == last'.out
          IN  /\ nodes' = nodes
              /\ UniqueKeys(out)
              /\ KeysOf(out) = KeysOf(a) \cup KeysOf(b)
              /\ \A k \in KeysOf(b) : Refs(out, k) = Refs(b, k)
              /\ \A k \in KeysOf(a) \ KeysOf(b) : Refs(out, k) = Refs(a, k) ]_vars

\* A merge where a key has different references in a and in b, and a has a key
\* b lacks.
C8_Witness ==
    /\ last.op = "merge"
    /\ \E k \in Keys :
          /\ Has(nodes[last.self], k) /\ Has(nodes[last.others[1]], k)
          /\ Refs(nodes[last.self], k) # Refs(nodes[last.others[1]], k)
          /\ Refs(last.out, k) = Refs(nodes[last.others[1]], k)
    /\ KeysOf(nodes[last.self]) \ KeysOf(nodes[last.others[1]]) # {}

\* C9: merge_all(a, js) returns a container whose keys are those of a and of
\* every listed container; under each key it holds the reference of the last
\* listed container that has the key, and a's reference when none has it; all
\* the containers are as they were (so an empty list gives a's entries).
C9_MergeAll ==
    [][ last'.op = "merge_all" =>
          LET a == nodes[last'.self]
              js == last'.others
              out == last'.out
          IN  /\ nodes' = nodes
              /\ UniqueKeys(out)
              /\ KeysOf(out) =
                    KeysOf(a) \cup UNION {KeysOf(nodes[js[n]]) : n \in DOMAIN js}
              /\ \A k \in KeysOf(out) :
                    Refs(out, k) = IF LastWith(js, k) = 0 THEN Refs(a, k)
                                   ELSE Refs(nodes[js[LastWith(js, k)]], k)
              /\ js = <<>> => Range(out) = Range(a) ]_vars

\* A merge_all over two other containers that both have a key a has too, all
\* three under different references or values.
C9_Witness ==
    /\ last.op = "merge_all"
    /\ last.others = <<2, 3>>
    /\ \E k \in Keys :
          /\ Has(nodes[1], k) /\ Has(nodes[2], k) /\ Has(nodes[3], k)
          /\ Refs(nodes[2], k) # Refs(nodes[3], k)
          /\ Refs(last.out, k) = Refs(nodes[3], k)
    /\ \E k \in Keys : Has(nodes[1], k) /\ ~Has(nodes[2], k) /\ ~Has(nodes[3], k)

\* C10: combine_with(a, js) returns a container whose keys are those of a and
\* of every listed container; under each key a has it holds a's reference,
\* under any other key the reference of the last listed container that has
\* it; a is as it was.
C10_CombineWith ==
    [][ last'.op = "combine_with" =>
          LET a == nodes[last'.self]
              js == last'.others
              out == last'.out
          IN  /\ nodes'[last'.self] = a
              /\ UniqueKeys(out)
              /\ KeysOf(out) =
                    KeysOf(a) \cup UNION {KeysOf(nodes[js[n]]) : n \in DOMAIN js}
              /\ \A k \in KeysOf(out) :
                    Refs(out, k) = IF Has(a, k) THEN Refs(a, k)
                                   ELSE Refs(nodes[js[LastWith(js, k)]], k) ]_vars

\* A combine_with where a key of a is also in a listed container under another
\* reference, and a key a lacks is in both listed containers under different
\* references.
C10_Witness ==
    /\ last.op = "combine_with"
    /\ last.others = <<2, 3>>
    /\ \E k \in Keys :
          /\ Has(nodes[1], k) /\ Has(nodes[2], k)
          /\ Refs(nodes[1], k) # Refs(nodes[2], k)
          /\ Refs(last.out, k) = Refs(nodes[1], k)
    /\ \E k \in Keys :
          /\ ~Has(nodes[1], k) /\ Has(nodes[2], k) /\ Has(nodes[3], k)
          /\ Refs(nodes[2], k) # Refs(nodes[3], k)
          /\ Refs(last.out, k) = Refs(nodes[3], k)

\* C11: merge_in_place(self, other) leaves self, and merge_with(self, other)
\* leaves other, with the keys of both, the incoming container's reference
\* under every key it has and the receiver's own reference under the keys the
\* incoming one lacks; the container moved in is gone.
C11_InPlaceMerges ==
    [][ last'.op \in {"merge_in_place", "merge_with"} =>
          LET recv == IF last'.op = "merge_in_place" THEN last'.self
                      ELSE last'.others[1]
              inc == IF last'.op = "merge_in_place" THEN last'.others[1]
                     ELSE last'.self
              r == nodes[recv]
              c == nodes[inc]
              u == nodes'[recv]
          IN  /\ UniqueKeys(u)
              /\ KeysOf(u) = KeysOf(r) \cup KeysOf(c)
              /\ \A k \in KeysOf(c) : Refs(u, k) = Refs(c, k)
              /\ \A k \in KeysOf(r) \ KeysOf(c) : Refs(u, k) = Refs(r, k)
              /\ inc \in live /\ inc \notin live' /\ recv \in live' ]_vars

\* A merge_with whose receiver had a key under another reference than the
\* incoming container, and a key the incoming one lacked.
C11_Witness ==
    /\ last.op = "merge_with"
    /\ last.self \notin live
    /\ Len(nodes[last.others[1]]) = 2
    /\ \E k \in Keys : Refs(nodes[last.others[1]], k) = {2}

\* C12: retain calls the predicate once on each entry present at the call;
\* an entry is erased exactly when the predicate answers false for it, every
\* other entry keeps its place and reference, and nothing is added.
C12_Retain ==
    [][ /\ (frame.op = "retain" /\ last'.op = "predicate") =>
             LET s == frame.self
                 e == <<last'.key, last'.val>>
             IN  /\ e = Head(frame.todo)
                 /\ nodes'[s] = SelectSeq(nodes[s],
                                   LAMBDA x : x # e \/ last'.flag)
                 /\ \A j \in CloudIds \ {s} : nodes'[j] = nodes[j]
        /\ (frame.op = "retain" /\ last'.op = "retain") =>
             LET s == frame.self
             IN  /\ frame.seen = frame.at
                 /\ nodes' = nodes
                 /\ nodes[s] = SelectSeq(frame.at, LAMBDA x : x \in frame.kept)
                 /\ Range(nodes[s]) \subseteq Range(frame.at) ]_vars

\* A retain over two entries whose predicate accepted one and refused the
\* other, with every predicate call made.
C12_Witness ==
    /\ frame.op = "retain" /\ frame.todo = <<>>
    /\ Len(frame.at) = 2
    /\ Cardinality(frame.kept) = 1
    /\ Len(nodes[frame.self]) = 1

\* C20: while retain holds the exclusive borrow, a get, contains_key, insert or
\* remove its predicate makes on the same container panics and changes no
\* table; while map holds its shared borrow, an insert, remove or clear its
\* closure makes on the same container panics and changes no table, and a get
\* it makes returns what the table records.
C20_NestedCalls ==
    [][ /\ ( /\ frame.op = "retain" /\ last'.self = frame.self
             /\ last'.op \in {"get", "contains_key", "insert", "remove"} )
           => (last'.ret = Panic /\ nodes' = nodes)
        /\ ( /\ frame.op = "map" /\ last'.self = frame.self
             /\ last'.op \in {"insert", "remove", "clear"} )
           => (last'.ret = Panic /\ nodes' = nodes)
        /\ ( /\ frame.op = "map" /\ last'.self = frame.self
             /\ last'.op = "get" )
           => /\ last'.ret # Panic
              /\ Refs(nodes[frame.self], last'.key) \in {{}, {last'.ret}}
              /\ Has(nodes[frame.self], last'.key) = (last'.ret # NoneRef)
              /\ frame' = frame /\ nodes' = nodes ]_vars

\* A remove made by a running closure on the container it runs over panicked.
C20_Witness ==
    /\ last.op = "remove" /\ last.ret = Panic
    /\ nodes[last.self] # <<>>

\* C13: insert_from_raw with a null pointer returns the null-pointer error and
\* changes no table; with any other pointer it returns what insert returns and
\* leaves the table insert leaves; no other call returns the error.
C13_InsertFromRaw ==
    [][ /\ last'.op = "insert_from_raw" =>
             LET i == last'.self
                 k == last'.key
             IN  IF last'.val = Null
                 THEN last'.ret = NullPointerError /\ nodes' = nodes
                 ELSE /\ nodes'[i] \in HashMapInsert(nodes[i], k, last'.val)
                      /\ Refs(nodes'[i], k) = {last'.val}
                      /\ \A j \in CloudIds \ {i} : nodes'[j] = nodes[j]
                      /\ Refs(nodes[i], k) \in {{}, {last'.ret}}
                      /\ Has(nodes[i], k) = (last'.ret # NoneRef)
        /\ last'.ret = NullPointerError =>
             (last'.op = "insert_from_raw" /\ last'.val = Null) ]_vars

\* A null pointer was refused for a key the table holds.
C13_Witness ==
    /\ last.op = "insert_from_raw"
    /\ last.ret = NullPointerError
    /\ Has(nodes[last.self], last.key)

\* C14: into_owned returns a mapping with the container's keys, each mapped to
\* a copy of the value its reference points to, and leaves every table as it
\* is; an insert, remove or clear made afterwards leaves that mapping as it is.
C14_IntoOwned ==
    [][ /\ last'.op = "into_owned" =>
             LET t == nodes[last'.self]
             IN  /\ UniqueKeys(owned')
                 /\ KeysOf(owned') = KeysOf(t)
                 /\ \A k \in KeysOf(t) :
                      Refs(owned', k) = {Val(a) : a \in Refs(t, k)}
                 /\ nodes' = nodes
        /\ last'.op \in {"insert", "remove", "clear"} => owned' = owned ]_vars

\* After into_owned returned a mapping, a remove took a key out of a table,
\* and the mapping still has the keys no table has any more.
C14_Witness ==
    /\ last.op = "remove" /\ last.ret # NoneRef
    /\ owned # <<>>
    /\ \A i \in CloudIds : KeysOf(owned) # KeysOf(nodes[i])

\* C18: indexing by a key the table lacks panics, and by a key it holds yields
\* the reference get returns; indexing changes no table.
C18_Index ==
    [][ last'.op \in {"index", "index_mut"} =>
          LET t == nodes[last'.self]
          IN  /\ nodes' = nodes
              /\ IF Has(t, last'.key)
                 THEN Refs(t, last'.key) = {last'.ret}
                 ELSE last'.ret = Panic ]_vars

\* Indexing a non-empty table by a key it lacks panicked.
C18_Witness ==
    /\ last.op = "index_mut" /\ last.ret = Panic
    /\ nodes[last.self] # <<>>
    /\ ~Has(nodes[last.self], last.key)

\* The positions of list ps before n that carry key k, and the greatest of a
\* set of positions.
Earlier(ps, n, k) == {m \in 1..(n - 1) : ps[m][1] = k}
Latest(S) == CHOOSE m \in S : \A x \in S : x <= m

\* C19: insert_all returns, at each position, the reference of the latest
\* earlier pair with that key, else what the table held under it, and leaves
\* the table with the last pair of each listed key and its other entries;
\* get_all and get_mut_all return, at each position, what get returns for the
\* key at that position, and change no table.
C19_BulkHelpers ==
    [][ /\ last'.op = "insert_all" =>
             LET i == last'.self
                 ps == last'.others
                 out == last'.out
                 t == nodes[i]
                 u == nodes'[i]
                 listed == {ps[n][1] : n \in DOMAIN ps}
             IN  /\ Len(out) = Len(ps)
                 /\ \A n \in DOMAIN ps :
                      LET k == ps[n][1]
                      IN  IF Earlier(ps, n, k) # {}
                          THEN out[n] = ps[Latest(Earlier(ps, n, k))][2]
                          ELSE /\ Refs(t, k) \in {{}, {out[n]}}
                               /\ Has(t, k) = (out[n] # NoneRef)
                 /\ UniqueKeys(u)
                 /\ KeysOf(u) = KeysOf(t) \cup listed
                 /\ \A k \in listed :
                      Refs(u, k) = {ps[Latest(Earlier(ps, Len(ps) + 1, k))][2]}
                 /\ \A k \in KeysOf(t) \ listed : Refs(u, k) = Refs(t, k)
                 /\ \A j \in CloudIds \ {i} : nodes'[j] = nodes[j]
        /\ last'.op \in {"get_all", "get_mut_all"} =>
             LET ks == last'.others
                 out == last'.out
                 t == nodes[last'.self]
             IN  /\ Len(out) = Len(ks)
                 /\ \A n \in DOMAIN ks :
                      /\ Refs(t, ks[n]) \in {{}, {out[n]}}
                      /\ Has(t, ks[n]) = (out[n] # NoneRef)
                 /\ nodes' = nodes ]_vars

\* An insert_all of two pairs with one key and two references: the second
\* position reports the first pair's reference and the table holds the second.
C19_Witness ==
    /\ last.op = "insert_all"
    /\ Len(last.others) = 2
    /\ last.others[1][1] = last.others[2][1]
    /\ last.others[1][2] # last.others[2][2]
    /\ last.out[2] = last.others[1][2]
    /\ Refs(nodes[last.self], last.others[2][1]) = {last.others[2][2]}

\* C15: the list into_vec returns and the Vec into_iter hands its adapter hold
\* the container's keys, each once, with the container's references; from_vec
\* of that list in any order, and from_iter of the unread adapter, build a
\* container with the same keys and the same reference under each.
C15_RoundTrip ==
    [][ /\ last'.op = "into_vec" =>
             /\ UniqueKeys(last'.out)
             /\ \A k \in Keys : Refs(last'.out, k) = Refs(nodes[last'.self], k)
        /\ (last.op = "into_vec" /\ last'.op = "from_vec") =>
             /\ UniqueKeys(nodes'[last'.self])
             /\ \A k \in Keys :
                  Refs(nodes'[last'.self], k) = Refs(last.out, k)
        /\ last'.op = "into_iter" =>
             /\ UniqueKeys(it'.pairs)
             /\ \A k \in Keys : Refs(it'.pairs, k) = Refs(nodes[last'.self], k)
        /\ (it.kind = "into_iter" /\ it.pairs = it.snap
              /\ last'.op = "from_iter") =>
             /\ UniqueKeys(nodes'[last'.self])
             /\ \A k \in Keys :
                  Refs(nodes'[last'.self], k) = Refs(it.snap, k) ]_vars

\* A container of two entries was rebuilt by from_vec from the two pairs
\* into_vec had returned.
C15_Witness ==
    /\ last.op = "from_vec"
    /\ Len(last.others) = 2
    /\ KeysOf(nodes[last.self]) = Keys
    /\ \E n \in 1..2 : Refs(nodes[last.self], last.others[n][1]) = {2}

C17_MutationWhileIterating ==
    [][ ( /\ it.kind \in {"iter", "iter_mut"}
          /\ last'.self = it.self
          /\ last'.op \in {"insert", "remove", "clear"} )
        => (last'.ret = Panic /\ nodes' = nodes) ]_vars

\* C21: no two threads hold access to the shared table at once with at
\* least one of them holding it for writing.
C21_ThreadsExcludeEachOther ==
    \A t, u \in Threads :
        ( /\ t # u
          /\ threads[t].pc = "holding" /\ threads[u].pc = "holding" )
        => (threads[t].op = "get" /\ threads[u].op = "get")

\* C22: get, get_mut and get_as_raw return a reference exactly when the
\* table has the key, the reference is the one the table records under that
\* key, and right after insert(k, r) it is r; contains_key answers whether the
\* table has the key.
C22_ScanAgreesWithLookup ==
    [][ /\ last'.op \in {"get", "get_mut", "get_as_raw"} =>
             LET t == nodes[last'.self]
                 k == last'.key
             IN  /\ (last'.ret # NoneRef) = HashMapContainsKey(t, k)
                 /\ last'.ret = HashMapGet(t, k)
                 /\ Refs(t, k) \in {{}, {last'.ret}}
                 /\ ( /\ last.op = "insert" /\ last.self = last'.self
                      /\ last.key = k )
                    => last'.ret = last.val
                 /\ nodes' = nodes
        /\ last'.op = "contains_key" =>
             last'.flag = Has(nodes[last'.self], last'.key) ]_vars

\* get_as_raw found, in a table of two entries, the reference under the key
\* of the entry in the second place, which is not the first entry's.
C22_Witness ==
    /\ last.op = "get_as_raw"
    /\ Len(nodes[last.self]) = 2
    /\ nodes[last.self][2][1] = last.key
    /\ last.ret = nodes[last.self][2][2]
    /\ nodes[last.self][1][2] # last.ret

\* The lexicographic order of two entry sequences from place n on: the first
\* place where the entries differ decides, and a sequence that ends first is
\* Less.
RECURSIVE LexFrom(_, _, _)
LexFrom(s, t, n) ==
    IF n > Len(s) /\ n > Len(t) THEN "Equal"
    ELSE IF n > Len(s) THEN "Less"
    ELSE IF n > Len(t) THEN "Greater"
    ELSE IF PairCmp(s[n], t[n]) # "Equal" THEN PairCmp(s[n], t[n])
    ELSE LexFrom(s, t, n + 1)

\* C23: partial_cmp is the lexicographic order of the two entry sequences, a
\* strict prefix comparing Less, so it answers Equal only for containers of
\* equal entry sequences.
C23_PartialCmpLexicographic ==
    [][ last'.op = "partial_cmp" =>
          last'.out = <<LexFrom(nodes[last'.self],
                                nodes[last'.others[1]], 1)>> ]_vars

\* C24: map calls its closure once on each entry the table has at the call
\* and collects its pairs in that order, changes no table and has dropped its
\* borrow when it returns; an insert, remove, clear or retain made while the
\* Map adapter exists leaves the adapter as it is.
C24_MapFixesItsOutput ==
    [][ /\ (frame.op = "map" /\ last'.op = "f") =>
             /\ <<last'.key, last'.val>> = Head(frame.todo)
             /\ frame'.seen = Append(frame.seen, Head(frame.todo))
             /\ frame'.out = Append(frame.out,
                                    Apply(frame.f, Head(frame.todo)))
             /\ nodes' = nodes
        /\ (frame.op = "map" /\ last'.op = "map") =>
             /\ frame.seen = frame.at
             /\ nodes[frame.self] = frame.at /\ nodes' = nodes
             /\ it'.snap = [n \in DOMAIN frame.at |->
                              Apply(frame.f, frame.at[n])]
             /\ it'.pairs = it'.snap
             /\ borrow'[frame.self] = 0
             /\ CanBorrowMut(borrow'[frame.self])
        /\ ( /\ it.kind = "map"
             /\ last'.op \in {"insert", "remove", "clear", "retain"} )
           => (it' = it /\ last'.ret # Panic) ]_vars

\* A Map adapter over two entries still holds both pairs after an insert put
\* another reference under a key of the container it was built over.
C24_Witness ==
    /\ it.kind = "map" /\ Len(it.pairs) = 2 /\ it.pairs = it.snap
    /\ last.op = "insert" /\ last.self = it.self
    /\ last.ret # NoneRef /\ last.ret # last.val

\* C27: for IntoIter, Map, Iter and IterMut, len is the number of entries of
\* the table at construction, and at every point the number of entries not
\* yet handed out; a next that hands out an entry lowers it by one, and a next
\* on an adapter whose len is 0 returns None and leaves it 0, so the next
\* after the last entry ends the iteration.
C27_Len ==
    [][ /\ last'.op \in {"into_iter", "iter", "iter_mut"} =>
             Len(it'.pairs) = Len(nodes[last'.self])
        /\ (frame.op = "map" /\ last'.op = "map") =>
             Len(it'.pairs) = Len(nodes[frame.self])
        /\ last'.op = "len" =>
             /\ last'.ret = Len(it.pairs)
             /\ it.pairs = SubSeq(it.snap, 1, last'.ret)
             /\ it' = it
        /\ (last'.op = "next" /\ it.kind # "into_pairs") =>
             IF last'.out # <<>>
             THEN Len(it'.pairs) = Len(it.pairs) - 1
             ELSE Len(it.pairs) = 0 /\ Len(it'.pairs) = 0
        /\ (last'.op = "next" /\ Len(it.pairs) = 0) => last'.out = <<>> ]_vars

\* len answered 1 for an adapter over two entries that had handed out one.
C27_Witness ==
    /\ last.op = "len" /\ last.ret = 1
    /\ it.kind = "map" /\ Len(it.snap) = 2 /\ Len(it.pairs) = 1

\* C26: whenever no call is in progress, the borrow flag of every container
\* is unused, so the borrow the next call asks for is granted.
C26_BorrowReleased ==
    frame.op = "none" =>
        \A i \in CloudIds :
            borrow[i] = 0 /\ CanBorrowMut(borrow[i]) /\ CanBorrow(borrow[i])

\* An insert returned after a map had returned its adapter.
C26_Witness ==
    /\ last.op = "insert" /\ last.ret # NoneRef
    /\ it.kind = "map" /\ it.snap # <<>>
    /\ frame.op = "none"

\* The calls that only read.
ReadOps ==
    {"get", "get_mut", "get_as_raw", "get_all", "contains_key",
     "contains_value", "is_empty", "merge", "merge_all", "combine_with",
     "into_owned", "clone", "eq", "hash"}

\* C25: a call that only reads leaves the table of every container there is
\* as it was; a clone has the keys and references of its source; and an
\* insert or remove on one container, be it a source or a container built by
\* merge, merge_all or clone, leaves the table of every other as it was.
C25_ReadOnlyAndIndependent ==
    [][ /\ last'.op \in ReadOps \cup {"keep"} =>
             \A x \in live : nodes'[x] = nodes[x]
        /\ last'.op = "clone" =>
             /\ UniqueKeys(nodes'[last'.others[1]])
             /\ \A k \in Keys : Refs(nodes'[last'.others[1]], k)
                                  = Refs(nodes[last'.self], k)
        /\ last'.op \in {"insert", "remove"} =>
             \A x \in MergeIds \ {last'.self} : nodes'[x] = nodes[x] ]_vars

\* An insert on a container built from container 1 put another reference
\* under a key container 1 has, and container 1 still has its own.
C25_Witness ==
    /\ last.op = "insert" /\ last.self = Result
    /\ Refs(nodes[1], last.key) = {last.ret}
    /\ Refs(nodes[Result], last.key) = {last.val}
    /\ last.ret # last.val

=============================================================================
